---- MODULE Spec2Model ----
(***************************************************************************)
(* Model of src/utils/lazy-loader.js: the module cache, the in-flight      *)
(* promise table, the four load functions, the idle-time preloader and the *)
(* status snapshot, on a single-threaded event loop with a FIFO microtask  *)
(* queue.  A step of the model is one synchronous run of JavaScript code   *)
(* (a call of a load function, one promise job, one idle callback) or one  *)
(* settlement of a factory's promise by the host.                          *)
(***************************************************************************)
EXTENDS Integers, Sequences, FiniteSets, TLC

(* The keys the four load functions pass to lazyLoad. *)
Keys == {"mermaid", "katex", "html2pdf", "docx"}

(* Bound of the model: the number of calls of the exported functions, a    *)
(* call of preloadInBackground counting for the calls of load functions    *)
(* that its idle callback makes.                                           *)
MaxCalls == 2

(* The module lists handed to preloadInBackground (the first is its default). *)
PreloadLists == {<<"mermaid", "katex">>, <<"mermaid">>, <<"html2pdf", "docx">>}

(* Bound of the texts handed to the detectors: the number of fragments a   *)
(* text is made of.                                                        *)
MaxFrags == 3

VARIABLES
    moduleCache,      \* Map moduleName -> module, in insertion order
    loadingPromises,  \* Map moduleName -> loadPromise (the attempt's index)
    attempts,         \* one record per importFn() call: the promise chain of lazyLoad
    callers,          \* one record per call of a load function
    microtasks,       \* the FIFO queue of promise jobs
    preloads,         \* one record per call of preloadInBackground: its list and
                      \* the callback it gave to requestIdleCallback, if any
    initialized,      \* the module objects whose default.isInitialized is true
    katexLinks,       \* number of katex stylesheet links in document.head
    lastStatus,       \* <<r>> when the step just taken was getLoadingStatus() returning r,
                      \* <<r, w>> when its caller has then written to the lists: w is
                      \* what they hold now
    statusCalls,      \* the number of calls of getLoadingStatus() so far
    markdown,         \* the text handed to the detectors, a sequence of characters
    detected,         \* one record per call of a detector: the function and its result
    lastRegExp        \* the RegExp object the latest hasKaTeXContent call tested with

vars == <<moduleCache, loadingPromises, attempts, callers, microtasks,
          preloads, initialized, katexLinks, lastStatus, statusCalls,
          markdown, detected, lastRegExp>>

(* What the detectors work on, and what the loader works on. *)
detVars == <<markdown, detected, lastRegExp>>
loaderVars == <<moduleCache, loadingPromises, attempts, callers, microtasks,
                preloads, initialized, katexLinks, lastStatus, statusCalls>>

---------------------------------------------------------------------------
(* Promise states.  A module object and an error are named by the index of *)
(* the attempt that produced them; 0 is undefined.                         *)
Pending == [st |-> "pending", val |-> 0]
Fulfilled(v) == [st |-> "fulfilled", val |-> v]
Rejected(v) == [st |-> "rejected", val |-> v]

(* The error thrown by mermaid.default.initialize, distinct from any load error. *)
InitError == 0 - 1

(* A JavaScript Map: a sequence of entries in insertion order. *)
MapHas(m, k) == \E i \in DOMAIN m : m[i].key = k
MapGet(m, k) == m[CHOOSE i \in DOMAIN m : m[i].key = k].val
MapSet(m, k, v) ==
    IF MapHas(m, k)
    THEN [i \in DOMAIN m |-> IF m[i].key = k THEN [key |-> k, val |-> v] ELSE m[i]]
    ELSE Append(m, [key |-> k, val |-> v])
MapDelete(m, k) == SelectSeq(m, LAMBDA e : e.key # k)
MapKeys(m) == [i \in DOMAIN m |-> m[i].key]

Job(t, i) == [type |-> t, id |-> i]

(* The JavaScript heap the synchronous code reads and writes. *)
Heap == [moduleCache |-> moduleCache, loadingPromises |-> loadingPromises,
         attempts |-> attempts, callers |-> callers, microtasks |-> microtasks,
         initialized |-> initialized, katexLinks |-> katexLinks]

Commit(h) ==
    /\ moduleCache' = h.moduleCache
    /\ loadingPromises' = h.loadingPromises
    /\ attempts' = h.attempts
    /\ callers' = h.callers
    /\ microtasks' = h.microtasks
    /\ initialized' = h.initialized
    /\ katexLinks' = h.katexLinks
    /\ lastStatus' = <<>>
    /\ UNCHANGED detVars

---------------------------------------------------------------------------
(* lazyLoad without its in-flight check (lines 21-24 dropped). *)
lazyLoad_NoInflightCheck(h, moduleName, c) ==
    IF MapHas(h.moduleCache, moduleName)
    THEN [h EXCEPT !.callers[c].lazy = Fulfilled(MapGet(h.moduleCache, moduleName))]
    ELSE LET a == Len(h.attempts) + 1 IN
         [h EXCEPT !.attempts = Append(@, [key |-> moduleName, p0 |-> Pending,
                                           p1 |-> Pending, lp |-> Pending,
                                           reactions |-> <<>>]),
                   !.loadingPromises = MapSet(@, moduleName, a),
                   !.callers[c].att = a,
                   !.microtasks = Append(@, Job("resolveThenable", c))]

(* lazyLoad without its cache check (lines 16-19 dropped). *)
lazyLoad_NoCacheCheck(h, moduleName, c) ==
    IF MapHas(h.loadingPromises, moduleName)
    THEN [h EXCEPT !.callers[c].att = MapGet(h.loadingPromises, moduleName),
                   !.microtasks = Append(@, Job("resolveThenable", c))]
    ELSE LET a == Len(h.attempts) + 1 IN
         [h EXCEPT !.attempts = Append(@, [key |-> moduleName, p0 |-> Pending,
                                           p1 |-> Pending, lp |-> Pending,
                                           reactions |-> <<>>]),
                   !.loadingPromises = MapSet(@, moduleName, a),
                   !.callers[c].att = a,
                   !.microtasks = Append(@, Job("resolveThenable", c))]

(* lazyLoad(moduleName, importFn), called on behalf of caller c: the       *)
(* synchronous body of the async function.  Returning a value fulfils the  *)
(* function's promise at once; returning loadPromise queues the job that   *)
(* adopts it (NewPromiseResolveThenableJob).                               *)
lazyLoad(h, moduleName, c) ==
    IF MapHas(h.moduleCache, moduleName)
    THEN [h EXCEPT !.callers[c].lazy = Fulfilled(MapGet(h.moduleCache, moduleName))]
    ELSE IF MapHas(h.loadingPromises, moduleName)
    THEN [h EXCEPT !.callers[c].att = MapGet(h.loadingPromises, moduleName),
                   !.microtasks = Append(@, Job("resolveThenable", c))]
    ELSE LET a == Len(h.attempts) + 1 IN
         [h EXCEPT !.attempts = Append(@, [key |-> moduleName, p0 |-> Pending,
                                           p1 |-> Pending, lp |-> Pending,
                                           reactions |-> <<>>]),
                   !.loadingPromises = MapSet(@, moduleName, a),
                   !.callers[c].att = a,
                   !.microtasks = Append(@, Job("resolveThenable", c))]

(* The .then callback without loadingPromises.delete (line 29 dropped). *)
onLoaded_NoDelete(h, a) ==
    LET k == h.attempts[a].key
        module == h.attempts[a].p0.val
    IN [h EXCEPT !.moduleCache = MapSet(@, k, module),
                 !.attempts[a].p1 = Fulfilled(module)]

(* The .then callback without moduleCache.set (line 28 dropped). *)
onLoaded_NoSet(h, a) ==
    LET k == h.attempts[a].key
        module == h.attempts[a].p0.val
    IN [h EXCEPT !.loadingPromises = MapDelete(@, k),
                 !.attempts[a].p1 = Fulfilled(module)]

(* The .then callback entering the module at the front of the cache. *)
onLoaded_Prepend(h, a) ==
    LET k == h.attempts[a].key
        module == h.attempts[a].p0.val
    IN [h EXCEPT !.moduleCache = <<[key |-> k, val |-> module]>> \o @,
                 !.loadingPromises = MapDelete(@, k),
                 !.attempts[a].p1 = Fulfilled(module)]

(* The callback of .then: module => { cache.set; loading.delete; return module } *)
onLoaded(h, a) ==
    LET k == h.attempts[a].key
        module == h.attempts[a].p0.val
    IN [h EXCEPT !.moduleCache = MapSet(@, k, module),
                 !.loadingPromises = MapDelete(@, k),
                 !.attempts[a].p1 = Fulfilled(module)]

(* The .catch callback without loadingPromises.delete (line 32 dropped). *)
onFailed_NoDelete(h, a) ==
    [h EXCEPT !.attempts[a].lp = Rejected(h.attempts[a].p1.val)]

(* The .catch callback without `throw error` (line 34 dropped): it returns *)
(* undefined, which fulfils loadPromise.                                   *)
onFailed_NoRethrow(h, a) ==
    [h EXCEPT !.loadingPromises = MapDelete(@, h.attempts[a].key),
              !.attempts[a].lp = Fulfilled(0)]

(* The .catch callback storing what it got, as a callback shared with the  *)
(* success path would.                                                     *)
onFailed_Caches(h, a) ==
    [h EXCEPT !.moduleCache = MapSet(@, h.attempts[a].key, h.attempts[a].p1.val),
              !.loadingPromises = MapDelete(@, h.attempts[a].key),
              !.attempts[a].lp = Rejected(h.attempts[a].p1.val)]

(* The .catch callback retrying on its own: it calls importFn again and    *)
(* registers the new promise before rethrowing.                            *)
onFailed_Retry(h, a) ==
    LET k == h.attempts[a].key
        b == Len(h.attempts) + 1
    IN [h EXCEPT !.attempts = Append([@ EXCEPT ![a].lp = Rejected(h.attempts[a].p1.val)],
                                     [key |-> k, p0 |-> Pending, p1 |-> Pending,
                                      lp |-> Pending, reactions |-> <<>>]),
                 !.loadingPromises = MapSet(MapDelete(@, k), k, b)]

(* The .catch callback clearing the whole table: loadingPromises.clear(). *)
onFailed_ClearAll(h, a) ==
    [h EXCEPT !.loadingPromises = <<>>,
              !.attempts[a].lp = Rejected(h.attempts[a].p1.val)]

(* The callback of .catch: error => { loading.delete; console.error; throw error } *)
onFailed(h, a) ==
    LET k == h.attempts[a].key
        error == h.attempts[a].p1.val
    IN [h EXCEPT !.loadingPromises = MapDelete(@, k),
                 !.attempts[a].lp = Rejected(error)]

(* The reaction job of importFn().then(onLoaded): a rejection passes through. *)
ThenReaction(h, a) ==
    LET h1 == IF h.attempts[a].p0.st = "fulfilled"
              THEN onLoaded(h, a)
              ELSE [h EXCEPT !.attempts[a].p1 = h.attempts[a].p0]
    IN [h1 EXCEPT !.microtasks = Append(@, Job("catchReaction", a))]

(* The reaction job of .catch(onFailed): a fulfilment passes through.  It  *)
(* settles loadPromise and queues the reactions registered on it.          *)
CatchReaction(h, a) ==
    LET h1 == IF h.attempts[a].p1.st = "fulfilled"
              THEN [h EXCEPT !.attempts[a].lp = h.attempts[a].p1]
              ELSE onFailed(h, a)
        rs == h1.attempts[a].reactions
    IN [h1 EXCEPT !.microtasks = @ \o [i \in DOMAIN rs |-> Job("resolveAsync", rs[i])]]

(* The job that adopts loadPromise for caller c's lazyLoad promise. *)
ResolveThenable(h, c) ==
    LET a == h.callers[c].att IN
    IF h.attempts[a].lp.st = "pending"
    THEN [h EXCEPT !.attempts[a].reactions = Append(@, c)]
    ELSE [h EXCEPT !.microtasks = Append(@, Job("resolveAsync", c))]

(* loadPromise's reaction: caller c's lazyLoad promise takes its outcome,  *)
(* and the continuation of the awaiting load function is queued.           *)
ResolveAsync(h, c) ==
    [h EXCEPT !.callers[c].lazy = h.attempts[h.callers[c].att].lp,
              !.microtasks = Append(@, Job("resume", c))]

(* `await lazyLoad(...)` in a load function: the continuation is queued at *)
(* once when the promise is already settled.                               *)
Await(h, c) ==
    IF h.callers[c].lazy.st # "pending"
    THEN [h EXCEPT !.microtasks = Append(@, Job("resume", c))]
    ELSE h

(* The synchronous part of a load function up to its await. *)
Load(h, k, origin, afterPreload) ==
    LET c == Len(h.callers) + 1
        h1 == [h EXCEPT !.callers = Append(@, [key |-> k, origin |-> origin,
                                               afterPreload |-> afterPreload,
                                               att |-> 0, lazy |-> Pending,
                                               out |-> Pending, ranInit |-> FALSE,
                                               caught |-> FALSE])]
    IN Await(lazyLoad(h1, k, c), c)

(* promise.catch(() => { }) on the promise of the call just made: its      *)
(* rejection, if any, is handled and goes no further.                      *)
Catch(h) == [h EXCEPT !.callers[Len(h.callers)].caught = TRUE]

(* loadMermaid's continuation without the isInitialized test (line 48). *)
loadMermaid_NoGuard(h, c, throws) ==
    LET module == h.callers[c].lazy.val IN
    IF throws
    THEN [h EXCEPT !.callers[c].out = Rejected(InitError)]
    ELSE [h EXCEPT !.initialized = @ \cup {module},
                   !.callers[c].ranInit = TRUE,
                   !.callers[c].out = Fulfilled(module)]

(* loadMermaid's continuation with the call of initialize in a try block   *)
(* that drops the exception.                                               *)
loadMermaid_SwallowInitError(h, c, throws) ==
    LET module == h.callers[c].lazy.val IN
    IF module \notin h.initialized /\ ~throws
    THEN [h EXCEPT !.initialized = @ \cup {module},
                   !.callers[c].ranInit = TRUE,
                   !.callers[c].out = Fulfilled(module)]
    ELSE [h EXCEPT !.callers[c].out = Fulfilled(module)]

(* The continuations of the load functions after `await lazyLoad(...)`. *)
loadMermaid(h, c, throws) ==
    LET module == h.callers[c].lazy.val IN
    IF module \notin h.initialized
    THEN IF throws
         THEN [h EXCEPT !.callers[c].out = Rejected(InitError)]
         ELSE [h EXCEPT !.initialized = @ \cup {module},
                        !.callers[c].ranInit = TRUE,
                        !.callers[c].out = Fulfilled(module)]
    ELSE [h EXCEPT !.callers[c].out = Fulfilled(module)]

(* loadKaTeX's continuation without the querySelector test (line 73). *)
loadKaTeX_NoCheck(h, c) ==
    [h EXCEPT !.katexLinks = @ + 1,
              !.callers[c].out = Fulfilled(h.callers[c].lazy.val)]

loadKaTeX(h, c) ==
    [h EXCEPT !.katexLinks = IF @ = 0 THEN 1 ELSE @,
              !.callers[c].out = Fulfilled(h.callers[c].lazy.val)]

loadHtml2Pdf(h, c) == [h EXCEPT !.callers[c].out = Fulfilled(h.callers[c].lazy.val)]

loadDocx(h, c) == [h EXCEPT !.callers[c].out = Fulfilled(h.callers[c].lazy.val)]

Resume(h, c, throws) ==
    LET k == h.callers[c].key IN
    IF h.callers[c].lazy.st = "rejected"
    THEN [h EXCEPT !.callers[c].out = h.callers[c].lazy]
    ELSE CASE k = "mermaid" -> loadMermaid(h, c, throws)
           [] k = "katex" -> loadKaTeX(h, c)
           [] k = "html2pdf" -> loadHtml2Pdf(h, c)
           [] k = "docx" -> loadDocx(h, c)

(* The body of the idle callback without the .catch(() => { }) of lines    *)
(* 124 and 127.                                                            *)
RECURSIVE forEachModule_NoCatch(_, _)
forEachModule_NoCatch(h, modules) ==
    IF modules = <<>> THEN h
    ELSE LET mod == Head(modules)
             h1 == IF mod \in {"mermaid", "katex"}
                   THEN Load(h, mod, "idle", TRUE)
                   ELSE h
         IN forEachModule_NoCatch(h1, Tail(modules))

(* The body of the idle callback: modules.forEach with its switch. *)
RECURSIVE forEachModule(_, _)
forEachModule(h, modules) ==
    IF modules = <<>> THEN h
    ELSE LET mod == Head(modules)
             h1 == IF mod \in {"mermaid", "katex"}
                   THEN Catch(Load(h, mod, "idle", TRUE))
                   ELSE h
         IN forEachModule(h1, Tail(modules))

(* The lists of getLoadingStatus() being live views of the two Maps: what  *)
(* the caller appends to a list is entered in the Map.                     *)
WriteReturned_Live(h, list, k) ==
    IF list = "loaded"
    THEN [h EXCEPT !.moduleCache = Append(@, [key |-> k, val |-> 0])]
    ELSE [h EXCEPT !.loadingPromises = Append(@, [key |-> k, val |-> 0])]

(* The caller of getLoadingStatus() appends k to a list of the result:     *)
(* Array.from(...) has made a new array, so the write reaches no Map.      *)
WriteReturned(h, list, k) == h

(* getLoadingStatus() with the two lists exchanged. *)
getLoadingStatus_Swapped ==
    [loaded |-> MapKeys(loadingPromises), loading |-> MapKeys(moduleCache)]

(* getLoadingStatus(): copies of the two key lists. *)
getLoadingStatus ==
    [loaded |-> MapKeys(moduleCache), loading |-> MapKeys(loadingPromises)]

---------------------------------------------------------------------------
Init ==
    /\ moduleCache = <<>>
    /\ loadingPromises = <<>>
    /\ attempts = <<>>
    /\ callers = <<>>
    /\ microtasks = <<>>
    /\ preloads = <<>>
    /\ initialized = {}
    /\ katexLinks = 0
    /\ lastStatus = <<>>
    /\ statusCalls = 0
    /\ markdown = <<>>
    /\ detected = <<>>
    /\ lastRegExp = [lastIndex |-> 0]

(* Has a callback been registered for a module list naming k? *)
Preloaded(k) ==
    \E i \in DOMAIN preloads :
        /\ preloads[i].callback # "none"
        /\ \E j \in DOMAIN preloads[i].modules : preloads[i].modules[j] = k

Handled(modules) ==
    Cardinality({j \in DOMAIN modules : modules[j] \in {"mermaid", "katex"}})

(* The calls of load functions a call of preloadInBackground stands for    *)
(* (one at least, so that these calls are bounded too).                    *)
Cost(p) ==
    IF p.callback = "none" \/ Handled(p.modules) = 0 THEN 1
    ELSE IF p.callback = "fired" THEN 0
    ELSE Handled(p.modules)

RECURSIVE Reserved(_)
Reserved(ps) == IF ps = <<>> THEN 0 ELSE Cost(Head(ps)) + Reserved(Tail(ps))

Used == Len(callers) + Reserved(preloads) + statusCalls

(* A foreground call of loadMermaid / loadKaTeX / loadHtml2Pdf / loadDocx. *)
Request(k) ==
    /\ Used < MaxCalls
    /\ Commit(Load(Heap, k, "foreground", Preloaded(k)))
    /\ UNCHANGED <<preloads, statusCalls>>

(* The host settles the promise returned by importFn() of attempt a. *)
FactorySettles(a, ok) ==
    /\ attempts[a].p0.st = "pending"
    /\ attempts' = [attempts EXCEPT ![a].p0 = IF ok THEN Fulfilled(a) ELSE Rejected(a)]
    /\ microtasks' = Append(microtasks, Job("thenReaction", a))
    /\ lastStatus' = <<>>
    /\ UNCHANGED <<moduleCache, loadingPromises, callers, preloads,
                   initialized, katexLinks, statusCalls>>
    /\ UNCHANGED detVars

(* The event loop runs the oldest promise job. *)
RunMicrotask(throws) ==
    /\ microtasks # <<>>
    /\ LET job == Head(microtasks)
           h == [Heap EXCEPT !.microtasks = Tail(microtasks)]
       IN CASE job.type = "thenReaction" -> Commit(ThenReaction(h, job.id))
            [] job.type = "catchReaction" -> Commit(CatchReaction(h, job.id))
            [] job.type = "resolveThenable" -> Commit(ResolveThenable(h, job.id))
            [] job.type = "resolveAsync" -> Commit(ResolveAsync(h, job.id))
            [] job.type = "resume" -> Commit(Resume(h, job.id, throws))
    /\ UNCHANGED <<preloads, statusCalls>>

(* preloadInBackground running the body of its callback itself, before it  *)
(* returns.                                                                *)
preloadInBackground_Eager(modules, hasIdle) ==
    LET p == [modules |-> modules,
              callback |-> IF hasIdle THEN "registered" ELSE "none"]
    IN /\ Used + Cost(p) <= MaxCalls
       /\ preloads' = Append(preloads, IF hasIdle THEN [p EXCEPT !.callback = "fired"]
                                                  ELSE p)
       /\ Commit(IF hasIdle THEN forEachModule(Heap, modules) ELSE Heap)
       /\ UNCHANGED statusCalls

(* preloadInBackground(modules); hasIdle is what the call finds for        *)
(* 'requestIdleCallback' in window.                                        *)
preloadInBackground(modules, hasIdle) ==
    LET p == [modules |-> modules,
              callback |-> IF hasIdle THEN "registered" ELSE "none"]
    IN /\ Used + Cost(p) <= MaxCalls
       /\ preloads' = Append(preloads, p)
       /\ lastStatus' = <<>>
       /\ UNCHANGED <<moduleCache, loadingPromises, attempts, callers, microtasks,
                      initialized, katexLinks, statusCalls>>
       /\ UNCHANGED detVars

(* The idle callback also run, by a fallback timer, for a call that found  *)
(* no requestIdleCallback.                                                 *)
IdleCallback_Fallback(i) ==
    /\ preloads[i].callback \in {"registered", "none"}
    /\ microtasks = <<>>
    /\ preloads' = [preloads EXCEPT ![i].callback = "fired"]
    /\ Commit(forEachModule(Heap, preloads[i].modules))
    /\ UNCHANGED statusCalls

(* The idle callback registered without { timeout: 5000 } (line 131): the  *)
(* browser runs it only in an idle period, which it never finds while a    *)
(* load is pending.                                                        *)
IdleCallback_NoTimeout(i) ==
    /\ preloads[i].callback = "registered"
    /\ microtasks = <<>>
    /\ loadingPromises = <<>>
    /\ preloads' = [preloads EXCEPT ![i].callback = "fired"]
    /\ Commit(forEachModule(Heap, preloads[i].modules))
    /\ UNCHANGED statusCalls

(* The browser runs a registered idle callback, as a task of its own. *)
IdleCallback(i) ==
    /\ preloads[i].callback = "registered"
    /\ microtasks = <<>>
    /\ preloads' = [preloads EXCEPT ![i].callback = "fired"]
    /\ Commit(forEachModule(Heap, preloads[i].modules))
    /\ UNCHANGED statusCalls

(* A call of getLoadingStatus(). *)
Status ==
    /\ Used < MaxCalls
    /\ lastStatus' = <<getLoadingStatus>>
    /\ statusCalls' = statusCalls + 1
    /\ UNCHANGED <<moduleCache, loadingPromises, attempts, callers, microtasks,
                   preloads, initialized, katexLinks>>
    /\ UNCHANGED detVars

(* The caller of getLoadingStatus() appends a key to one of the two lists  *)
(* it has got.                                                             *)
MutateStatus(list, k) ==
    /\ Len(lastStatus) = 1
    /\ LET h == WriteReturned(Heap, list, k) IN
          /\ moduleCache' = h.moduleCache
          /\ loadingPromises' = h.loadingPromises
          /\ attempts' = h.attempts
          /\ callers' = h.callers
          /\ microtasks' = h.microtasks
          /\ initialized' = h.initialized
          /\ katexLinks' = h.katexLinks
    /\ lastStatus' = <<lastStatus[1], [lastStatus[1] EXCEPT ![list] = Append(@, k)]>>
    /\ UNCHANGED <<preloads, statusCalls>>
    /\ UNCHANGED detVars

Next ==
    \/ \E k \in Keys : Request(k)
    \/ \E a \in DOMAIN attempts, ok \in BOOLEAN : FactorySettles(a, ok)
    \/ \E throws \in BOOLEAN : RunMicrotask(throws)
    \/ \E modules \in PreloadLists, hasIdle \in BOOLEAN :
          preloadInBackground(modules, hasIdle)
    \/ \E i \in DOMAIN preloads : IdleCallback(i)
    \/ Status
    \/ \E list \in {"loaded", "loading"}, k \in Keys : MutateStatus(list, k)

Spec == Init /\ [][Next]_vars

(* The scheduling the platform guarantees: the microtask queue is drained  *)
(* after every task, and a callback given to requestIdleCallback with a    *)
(* timeout is run at the latest when the timeout has elapsed.  Nothing     *)
(* makes a dynamic import settle, and nothing makes the application call.  *)
FairSpec ==
    /\ Spec
    /\ WF_vars(\E throws \in BOOLEAN : RunMicrotask(throws))
    /\ WF_vars(\E i \in DOMAIN preloads : IdleCallback(i))

---------------------------------------------------------------------------
(* lazyLoad with a factory that throws when it is called.  The factories   *)
(* of the four load functions call import(), which returns a rejected      *)
(* promise rather than throw; lazyLoad itself takes any importFn.          *)

(* The error thrown by importFn(), distinct from load and initialize errors. *)
SyncError == 0 - 2

(* lazyLoad calling importFn inside the promise chain, as                  *)
(* Promise.resolve().then(importFn) would: the throw becomes the rejection *)
(* of a registered load.                                                   *)
lazyLoadThrowing_AsRejection(h, moduleName, c) ==
    IF MapHas(h.moduleCache, moduleName)
    THEN [h EXCEPT !.callers[c].lazy = Fulfilled(MapGet(h.moduleCache, moduleName))]
    ELSE IF MapHas(h.loadingPromises, moduleName)
    THEN [h EXCEPT !.callers[c].att = MapGet(h.loadingPromises, moduleName),
                   !.microtasks = Append(@, Job("resolveThenable", c))]
    ELSE LET a == Len(h.attempts) + 1 IN
         [h EXCEPT !.attempts = Append(@, [key |-> moduleName, p0 |-> Rejected(SyncError),
                                           p1 |-> Pending, lp |-> Pending,
                                           reactions |-> <<>>]),
                   !.loadingPromises = MapSet(@, moduleName, a),
                   !.callers[c].att = a,
                   !.microtasks = Append(Append(@, Job("thenReaction", a)),
                                         Job("resolveThenable", c))]

(* lazyLoad(moduleName, importFn) when importFn() throws: the exception    *)
(* leaves the async function at line 27, before loadingPromises.set, and   *)
(* rejects the function's promise.  The two early returns come first.      *)
lazyLoadThrowing(h, moduleName, c) ==
    IF MapHas(h.moduleCache, moduleName)
    THEN [h EXCEPT !.callers[c].lazy = Fulfilled(MapGet(h.moduleCache, moduleName))]
    ELSE IF MapHas(h.loadingPromises, moduleName)
    THEN [h EXCEPT !.callers[c].att = MapGet(h.loadingPromises, moduleName),
                   !.microtasks = Append(@, Job("resolveThenable", c))]
    ELSE [h EXCEPT !.callers[c].lazy = Rejected(SyncError)]

(* A load function whose factory throws, up to its await. *)
LoadThrowing(h, k) ==
    LET c == Len(h.callers) + 1
        h1 == [h EXCEPT !.callers = Append(@, [key |-> k, origin |-> "foreground",
                                               afterPreload |-> FALSE,
                                               att |-> 0, lazy |-> Pending,
                                               out |-> Pending, ranInit |-> FALSE,
                                               caught |-> FALSE])]
    IN Await(lazyLoadThrowing(h1, k, c), c)

RequestThrowing(k) ==
    /\ Used < MaxCalls
    /\ Commit(LoadThrowing(Heap, k))
    /\ UNCHANGED <<preloads, statusCalls>>

ThrowNext ==
    \/ \E k \in Keys : Request(k)
    \/ \E k \in Keys : RequestThrowing(k)
    \/ \E a \in DOMAIN attempts, ok \in BOOLEAN : FactorySettles(a, ok)
    \/ \E throws \in BOOLEAN : RunMicrotask(throws)

ThrowSpec == Init /\ [][ThrowNext]_vars

---------------------------------------------------------------------------
(* The same with the assumption that every dynamic import settles. *)
LiveSpec ==
    /\ FairSpec
    /\ WF_vars(\E a \in DOMAIN attempts, ok \in BOOLEAN : FactorySettles(a, ok))

---------------------------------------------------------------------------
(* The detectors.  A text is a sequence of one-character strings and a     *)
(* position is an index into it; a RegExp's lastIndex counts the           *)
(* characters before the position the next search starts at.               *)

(* The grave accent, which a string of this module cannot hold. *)
Backtick == "U+0060"

Fence == <<Backtick, Backtick, Backtick>>
Tag == <<"m", "e", "r", "m", "a", "i", "d">>

(* A fenced mermaid block, and a text without any marker. *)
MermaidExample == Fence \o Tag \o <<"\n", "A", "-", ">", "B", "\n">> \o Fence
PlainExample ==
    <<"p", "l", "a", "i", "n", " ", "p", "a", "r", "a",
      "g", "r", "a", "p", "h", ",", " ", "n", "o", " ", "m", "a", "r", "k", "e", "r", "s">>

(* A text with an inline and a block math span. *)
MathExample ==
    <<"I", "n", "l", "i", "n", "e", " ", "$", "x", "^",
      "2", "$", " ", "m", "a", "t", "h", " ", "a", "n",
      "d", " ", "b", "l", "o", "c", "k", " ", "$", "$",
      "\\", "i", "n", "t", " ", "f", "$", "$">>

(* A text with two prices and no math. *)
DollarExample == <<"$", "5", " ", "a", "n", "d", " ", "$", "1", "0">>

(* The texts handed to the detectors: up to MaxFrags fragments in a row,   *)
(* and the examples.                                                       *)
Fragments == {Fence, <<Backtick>>, Tag, <<"M", "e", "r", "m", "a", "i", "d">>,
              <<"$">>, <<"$", "$">>, <<"\n">>, <<"x">>}

RECURSIVE Concat(_)
Concat(fs) == IF fs = <<>> THEN <<>> ELSE Head(fs) \o Concat(Tail(fs))

Texts ==
    {Concat(fs) : fs \in UNION {[1..n -> Fragments] : n \in 0..MaxFrags}}
        \cup {MermaidExample, PlainExample, MathExample, DollarExample}

(* Canonicalize of the i flag: a character compares by its upper case. *)
LowerCase == <<"a", "b", "c", "d", "e", "f", "g", "h", "i", "j", "k", "l", "m",
               "n", "o", "p", "q", "r", "s", "t", "u", "v", "w", "x", "y", "z">>
UpperCase == <<"A", "B", "C", "D", "E", "F", "G", "H", "I", "J", "K", "L", "M",
               "N", "O", "P", "Q", "R", "S", "T", "U", "V", "W", "X", "Y", "Z">>
(* Canonicalize without the i flag. *)
Canonicalize_CaseSensitive(ch, ignoreCase) == ch

Canonicalize(ch, ignoreCase) ==
    IF ignoreCase /\ \E n \in DOMAIN LowerCase : LowerCase[n] = ch
    THEN UpperCase[CHOOSE n \in DOMAIN LowerCase : LowerCase[n] = ch]
    ELSE ch

(* Do the characters of literal stand at position i of text? *)
MatchesLiteral(text, i, literal, ignoreCase) ==
    /\ i + Len(literal) - 1 <= Len(text)
    /\ \A n \in DOMAIN literal :
          Canonicalize(text[i + n - 1], ignoreCase) = Canonicalize(literal[n], ignoreCase)

(* The class . in place of [\s\S]: it matches no line terminator. *)
AnyChar_Dot(ch) == ch \notin {"\n", "\r"}

(* The class [\s\S]: every character. *)
AnyChar(ch) == TRUE

(* The class [^$]: a newline is taken too. *)
NotDollarNewline_AnyButDollar(ch) == ch # "$"

(* The class [^$\n]. *)
NotDollarNewline(ch) == ch \notin {"$", "\n"}

Min(S) == CHOOSE x \in S : \A y \in S : x <= y
Max(S) == CHOOSE x \in S : \A y \in S : x >= y

(* [\s\S]*? followed by literal, from position from: the lazy quantifier   *)
(* stops at the first position where the literal stands.  0 is no match.   *)
LazyUntil(text, from, literal, ignoreCase) ==
    LET S == {j \in from..Len(text) :
                 /\ MatchesLiteral(text, j, literal, ignoreCase)
                 /\ \A q \in from..(j - 1) : AnyChar(text[q])}
    IN IF S = {} THEN 0 ELSE Min(S)

(* [^$\n]+ followed by $, from position from: the greedy quantifier takes  *)
(* the longest run that leaves a $ behind it.  0 is no match.              *)
GreedyUntilDollar(text, from) ==
    LET S == {j \in (from + 1)..Len(text) :
                 /\ text[j] = "$"
                 /\ \A q \in from..(j - 1) : NotDollarNewline(text[q])}
    IN IF S = {} THEN 0 ELSE Max(S)

(* /```mermaid[\s\S]*?```/i tried at position i: the position of the last  *)
(* character matched, 0 when there is no match at i.                       *)
MermaidMatch(text, i) ==
    IF MatchesLiteral(text, i, Fence \o Tag, TRUE)
    THEN LET j == LazyUntil(text, i + Len(Fence \o Tag), Fence, TRUE)
         IN IF j = 0 THEN 0 ELSE j + Len(Fence) - 1
    ELSE 0

(* The pattern without its second alternative: /\$\$[\s\S]*?\$\$/. *)
KaTeXMatch_BlockOnly(text, i) ==
    IF MatchesLiteral(text, i, <<"$", "$">>, FALSE)
    THEN LET j == LazyUntil(text, i + 2, <<"$", "$">>, FALSE)
         IN IF j = 0 THEN 0 ELSE j + 1
    ELSE 0

(* /\$\$[\s\S]*?\$\$|\$[^$\n]+\$/ tried at position i: the first           *)
(* alternative, and the second when the first fails.                       *)
KaTeXMatch(text, i) ==
    LET block == IF MatchesLiteral(text, i, <<"$", "$">>, FALSE)
                 THEN LET j == LazyUntil(text, i + 2, <<"$", "$">>, FALSE)
                      IN IF j = 0 THEN 0 ELSE j + 1
                 ELSE 0
        inline == IF text[i] = "$" THEN GreedyUntilDollar(text, i + 1) ELSE 0
    IN IF block # 0 THEN block ELSE inline

(* The pattern of a RegExp tried at position i. *)
Match(pattern, text, i) ==
    IF pattern = "mermaid" THEN MermaidMatch(text, i) ELSE KaTeXMatch(text, i)

(* RegExp.prototype.test: the search starts at lastIndex for a global      *)
(* RegExp and at 0 otherwise, and takes the leftmost match; a global       *)
(* RegExp's lastIndex becomes the end of the match, or 0 on failure.       *)
RegExpTest(re, global, text, pattern) ==
    LET from == IF global THEN re.lastIndex ELSE 0
        S == {i \in (from + 1)..Len(text) : Match(pattern, text, i) # 0}
    IN IF S = {}
       THEN [found |-> FALSE, lastIndex |-> IF global THEN 0 ELSE re.lastIndex]
       ELSE [found |-> TRUE,
             lastIndex |-> IF global THEN Match(pattern, text, Min(S))
                           ELSE re.lastIndex]

(* The RegExp of line 112 hoisted out of the function: every call tests    *)
(* with the object the call before left behind.                            *)
KaTeXRegExp_Hoisted(previous) == previous

(* Evaluating the RegExp literal of line 112 makes a new object on every   *)
(* call, whatever object the call before has made.                         *)
KaTeXRegExp(previous) == [lastIndex |-> 0]

hasMermaidContent(text) ==
    RegExpTest([lastIndex |-> 0], FALSE, text, "mermaid").found

KaTeXTest(text) == RegExpTest(KaTeXRegExp(lastRegExp), TRUE, text, "katex")

hasKaTeXContent(text) == KaTeXTest(text).found

DetInit ==
    /\ moduleCache = <<>>
    /\ loadingPromises = <<>>
    /\ attempts = <<>>
    /\ callers = <<>>
    /\ microtasks = <<>>
    /\ preloads = <<>>
    /\ initialized = {}
    /\ katexLinks = 0
    /\ lastStatus = <<>>
    /\ statusCalls = 0
    /\ markdown \in Texts
    /\ detected = <<>>
    /\ lastRegExp = [lastIndex |-> 0]

(* A call hasMermaidContent(markdown). *)
CallHasMermaidContent ==
    /\ Len(detected) < MaxCalls
    /\ detected' = Append(detected, [fn |-> "hasMermaidContent",
                                     result |-> hasMermaidContent(markdown)])
    /\ UNCHANGED <<markdown, lastRegExp>>
    /\ UNCHANGED loaderVars

(* A call hasKaTeXContent(markdown). *)
CallHasKaTeXContent ==
    /\ Len(detected) < MaxCalls
    /\ detected' = Append(detected, [fn |-> "hasKaTeXContent",
                                     result |-> hasKaTeXContent(markdown)])
    /\ lastRegExp' = [lastIndex |-> KaTeXTest(markdown).lastIndex]
    /\ UNCHANGED markdown
    /\ UNCHANGED loaderVars

DetNext == CallHasMermaidContent \/ CallHasKaTeXContent

DetSpec == DetInit /\ [][DetNext]_vars

---------------------------------------------------------------------------
(* Vocabulary of the properties.                                           *)

(* The factory invocations (importFn() calls) made so far for key k. *)
Attempts(k) == {a \in DOMAIN attempts : attempts[a].key = k}
Invocations(k) == Cardinality(Attempts(k))

(* The calls of the load function of key k made so far. *)
Callers(k) == {c \in DOMAIN callers : callers[c].key = k}

(* An attempt is settled, as far as any JavaScript code can tell, when the *)
(* callback lazyLoad chained on the factory's promise has run: the .then   *)
(* callback for a fulfilment, the .catch callback for a rejection.         *)
Succeeded(a) == attempts[a].p0.st = "fulfilled" /\ attempts[a].p1.st # "pending"
Failed(a) == attempts[a].p0.st = "rejected" /\ attempts[a].lp.st # "pending"
Unsettled(a) == ~Succeeded(a) /\ ~Failed(a)

Loaded(k) == MapHas(moduleCache, k)
Loading(k) == MapHas(loadingPromises, k)
Unloaded(k) == ~Loaded(k) /\ ~Loading(k)

Range(seq) == {seq[i] : i \in DOMAIN seq}

(* C1: while no attempt for a key has settled, the requests made for that  *)
(* key, however many and however interleaved, have caused exactly one      *)
(* factory invocation, and all of them hold the promise of that attempt.   *)
C1_Dedup ==
    \A k \in Keys :
        (Callers(k) # {} /\ \A a \in Attempts(k) : Unsettled(a))
            => /\ Invocations(k) = 1
               /\ \A c \in Callers(k) : callers[c].att \in Attempts(k)

C1_Witness ==
    \E k \in Keys :
        /\ Cardinality(Callers(k)) >= 2
        /\ Invocations(k) = 1
        /\ \A a \in Attempts(k) : Unsettled(a)

(* C2: every caller that was handed the promise of an attempt gets, from   *)
(* lazyLoad, the outcome of that attempt: the module it produced when the  *)
(* factory fulfilled, its error when the factory rejected.  Hence callers  *)
(* of one attempt never differ in outcome.                                 *)
C2_SameOutcome ==
    /\ \A c \in DOMAIN callers :
          (callers[c].att # 0 /\ callers[c].lazy.st # "pending")
              => callers[c].lazy = attempts[callers[c].att].p0
    /\ \A c, d \in DOMAIN callers :
          (/\ callers[c].att # 0
           /\ callers[c].att = callers[d].att
           /\ callers[c].lazy.st # "pending"
           /\ callers[d].lazy.st # "pending")
              => callers[c].lazy = callers[d].lazy

C2_Witness ==
    \E c, d \in DOMAIN callers :
        /\ c # d
        /\ callers[c].att # 0
        /\ callers[c].att = callers[d].att
        /\ callers[c].lazy.st = "rejected"
        /\ callers[d].lazy.st = "rejected"

(* The calls made by the step. *)
NewCallers(k) == {c \in DOMAIN callers' : c > Len(callers) /\ callers'[c].key = k}

(* C3: once a key is in the cache, no step invokes its factory again, and  *)
(* every request made from then on is answered by lazyLoad with the cached *)
(* value, without a load promise.                                          *)
C3_Memoization ==
    [][\A k \in Keys :
          Loaded(k) =>
              /\ Invocations(k)' = Invocations(k)
              /\ \A c \in NewCallers(k) :
                    /\ callers'[c].att = 0
                    /\ callers'[c].lazy = Fulfilled(MapGet(moduleCache, k))]_vars

C3_Witness ==
    \E k \in Keys : \E c \in Callers(k) :
        /\ Loaded(k)
        /\ callers[c].att = 0
        /\ callers[c].out = Fulfilled(MapGet(moduleCache, k))
        /\ Invocations(k) = 1

(* C4: the step that runs the failure callback of an attempt leaves the    *)
(* key with neither a cache entry nor a pending load, the key stays so     *)
(* while every attempt made for it has failed, and the next request for it *)
(* invokes the factory once more and gets the promise of the new attempt.  *)
C4_RetryAfterFailure ==
    /\ [](\A k \in Keys :
            (Attempts(k) # {} /\ \A a \in Attempts(k) : Failed(a)) => Unloaded(k))
    /\ [][\A k \in Keys :
            (/\ Attempts(k) # {}
             /\ \A a \in Attempts(k) : Failed(a)
             /\ NewCallers(k) # {})
                => /\ Invocations(k)' = Invocations(k) + 1
                   /\ \A c \in NewCallers(k) :
                         /\ callers'[c].att \in DOMAIN attempts' \ DOMAIN attempts
                         /\ attempts'[callers'[c].att].key = k
                         /\ attempts'[callers'[c].att].p0 = Pending]_vars

C4_Witness ==
    \E k \in Keys : \E a, b \in Attempts(k) :
        /\ a < b
        /\ Failed(a)
        /\ Unsettled(b)
        /\ \E c \in Callers(k) : callers[c].att = b

(* C5: no key has a cache entry and a pending load at once, in any state   *)
(* (so in particular between tasks), and no pending load is ever           *)
(* registered over another: every attempt that has not settled is the one  *)
(* the table holds for its key, and the table holds nothing else.          *)
C5_AtMostOne ==
    /\ \A k \in Keys : ~(Loaded(k) /\ Loading(k))
    /\ \A a \in DOMAIN attempts :
          Unsettled(a) => /\ Loading(attempts[a].key)
                          /\ MapGet(loadingPromises, attempts[a].key) = a
    /\ \A i \in DOMAIN loadingPromises :
          /\ loadingPromises[i].val \in Attempts(loadingPromises[i].key)
          /\ Unsettled(loadingPromises[i].val)
          /\ \A j \in DOMAIN loadingPromises :
                loadingPromises[j].key = loadingPromises[i].key => i = j

C5_Witness ==
    /\ microtasks = <<>>
    /\ \E k, l \in Keys : Loaded(k) /\ Loading(l)

(* C6: the cache only grows by appending: an entry, once there, keeps its *)
(* value and its place, and the only step that adds an entry for a key is  *)
(* the one in which the success callback of an attempt for that key runs,  *)
(* which stores the module that attempt produced.  A key therefore gets    *)
(* its entry once, and never from a failed attempt.                        *)
C6_WriteOnce ==
    [][/\ \A i \in DOMAIN moduleCache :
             i \in DOMAIN moduleCache' /\ moduleCache'[i] = moduleCache[i]
       /\ Len(moduleCache') <= Len(moduleCache) + 1
       /\ \A k \in Keys :
             (~Loaded(k) /\ Loaded(k)') =>
                 \E a \in Attempts(k) :
                     /\ attempts[a].p0.st = "fulfilled"
                     /\ Unsettled(a)
                     /\ Succeeded(a)'
                     /\ MapGet(moduleCache', k) = attempts[a].p0.val]_vars

C6_Witness ==
    \E k \in Keys : \E a, b \in Attempts(k) :
        /\ Failed(a)
        /\ Succeeded(b)
        /\ MapGet(moduleCache, k) = b
        /\ \E c \in Callers(k) : callers[c].out = Fulfilled(b)

(* The state of a key, read off the two tables. *)
KeyState(k) ==
    IF Loaded(k) /\ Loading(k) THEN "Both"
    ELSE IF Loaded(k) THEN "Loaded"
    ELSE IF Loading(k) THEN "Loading"
    ELSE "Unloaded"

(* C7: a key starts Unloaded, and a step changes its state only from       *)
(* Unloaded to Loading, by invoking the factory; from Loading to Loaded,   *)
(* by the success callback of its attempt; or from Loading to Unloaded, by *)
(* the failure callback of its attempt.  Nothing leaves Loaded.            *)
C7_Transitions ==
    /\ \A k \in Keys : KeyState(k) = "Unloaded"
    /\ [][\A k \in Keys :
            KeyState(k)' # KeyState(k) =>
                \/ /\ KeyState(k) = "Unloaded"
                   /\ KeyState(k)' = "Loading"
                   /\ Invocations(k)' = Invocations(k) + 1
                \/ /\ KeyState(k) = "Loading"
                   /\ KeyState(k)' = "Loaded"
                   /\ Invocations(k)' = Invocations(k)
                   /\ \E a \in Attempts(k) : Unsettled(a) /\ Succeeded(a)'
                \/ /\ KeyState(k) = "Loading"
                   /\ KeyState(k)' = "Unloaded"
                   /\ Invocations(k)' = Invocations(k)
                   /\ \E a \in Attempts(k) : Unsettled(a) /\ Failed(a)']_vars

C7_Witness ==
    \E k \in Keys : \E a, b \in Attempts(k) :
        /\ a < b
        /\ Failed(a)
        /\ Succeeded(b)
        /\ KeyState(k) = "Loaded"
        /\ microtasks = <<>>

(* What a status object r says, against the history of the attempts. *)
Accurate(r) ==
    \A k \in Keys :
        /\ k \in Range(r.loading) <=> \E a \in Attempts(k) : Unsettled(a)
        /\ k \in Range(r.loaded) <=> \E a \in Attempts(k) : Succeeded(a)
        /\ ~(k \in Range(r.loading) /\ k \in Range(r.loaded))

(* C8: in every state, what getLoadingStatus() would return, and what it   *)
(* has just returned, lists under `loading` exactly the keys with an       *)
(* attempt started and not settled, under `loaded` exactly the keys with   *)
(* an attempt that succeeded, and no key under both.                       *)
C8_StatusAccuracy ==
    /\ Accurate(getLoadingStatus)
    /\ lastStatus # <<>> => Accurate(lastStatus[1])

C8_Witness ==
    /\ lastStatus # <<>>
    /\ lastStatus[1].loaded # <<>>
    /\ lastStatus[1].loading = <<>>
    /\ \E a \in DOMAIN attempts : Succeeded(a)

(* The scenario of C9 for key k: preloadInBackground was called with k,    *)
(* then, before the idle callback could run, one foreground request for k  *)
(* was made, and the idle callback has since run and made its own request; *)
(* nothing else asked for k.                                               *)
PreloadThenRequest(k) ==
    \E c, d \in Callers(k) :
        /\ Callers(k) = {c, d}
        /\ c < d
        /\ callers[c].origin = "foreground"
        /\ callers[c].afterPreload
        /\ callers[d].origin = "idle"

(* C9 as stated: in that scenario the factory of k has been invoked        *)
(* exactly once, whenever the idle callback ran.                           *)
C9_Original ==
    \A k \in Keys : PreloadThenRequest(k) => Invocations(k) = 1

(* C9 amended: in that scenario the factory of k has been invoked exactly  *)
(* once and both requests share that attempt or its cached module, unless  *)
(* the first attempt had failed before the other path made its request:    *)
(* then, and only then, that request started a second attempt.             *)
C9_PreloadNonInterference ==
    \A k \in Keys :
        PreloadThenRequest(k) =>
            \/ /\ Invocations(k) = 1
               /\ \A c \in Callers(k) :
                     \/ callers[c].att \in Attempts(k)
                     \/ callers[c].lazy = Fulfilled(CHOOSE a \in Attempts(k) : TRUE)
            \/ /\ Invocations(k) = 2
               /\ \E a, b \in Attempts(k) :
                     /\ a < b
                     /\ Failed(a)
                     /\ \E c, d \in Callers(k) :
                           c < d /\ callers[c].att = a /\ callers[d].att = b

C9_Witness ==
    \E k \in Keys : \E c, d \in Callers(k) :
        /\ PreloadThenRequest(k)
        /\ c # d
        /\ Invocations(k) = 1
        /\ callers[c].att = callers[d].att
        /\ callers[c].att # 0
        /\ callers[c].lazy.st = "fulfilled"
        /\ callers[d].lazy.st = "fulfilled"

(* C10: the factory of a key is invoked only by a step that is a request   *)
(* for that key, a foreground call or an idle callback making one; the     *)
(* steps that settle an attempt or run its callbacks, the failure callback *)
(* included, invoke nothing.                                               *)
C10_NoAutomaticRetry ==
    [][\A k \in Keys :
          Invocations(k)' # Invocations(k) =>
              /\ NewCallers(k) # {}
              /\ Invocations(k)' = Invocations(k) + 1]_vars

C10_Witness ==
    \E k \in Keys :
        /\ Invocations(k) = 1
        /\ \A a \in Attempts(k) : Failed(a)
        /\ \E c \in Callers(k) : callers[c].out.st = "rejected"
        /\ microtasks = <<>>
        /\ Unloaded(k)

---------------------------------------------------------------------------
(* The call that made the factory invocation a: the first one attached to it. *)
Starter(a) ==
    CHOOSE c \in DOMAIN callers :
        /\ callers[c].att = a
        /\ \A d \in DOMAIN callers : callers[d].att = a => c <= d

IdleStarted(a) ==
    /\ \E c \in DOMAIN callers : callers[c].att = a
    /\ callers[Starter(a)].origin = "idle"

(* Is attempt a the pending load registered for its key? *)
Registered(a) ==
    /\ MapHas(loadingPromises, attempts[a].key)
    /\ MapGet(loadingPromises, attempts[a].key) = a

(* C11: when a load failure is delivered to an awaiting caller, the failed *)
(* attempt is no longer the pending load of its key; a request for the key *)
(* made once a caller has observed the failure is never attached to the    *)
(* failed attempt: it starts a new factory invocation, or joins the        *)
(* pending one that an earlier re-request has started, or gets the module  *)
(* that such a later invocation has put in the cache.                      *)
C11_RetryFromContinuation ==
    /\ [](\A c \in DOMAIN callers :
            callers[c].lazy.st = "rejected"
                => /\ callers[c].att # 0
                   /\ Failed(callers[c].att)
                   /\ ~Registered(callers[c].att))
    /\ [][\A c \in DOMAIN callers :
            callers[c].out.st = "rejected" /\ callers[c].lazy.st = "rejected"
                => \A d \in NewCallers(callers[c].key) :
                      /\ callers'[d].att # callers[c].att
                      /\ Loaded(callers[c].key)
                            => callers'[d].lazy.st = "fulfilled"
                      /\ ~Loaded(callers[c].key)
                            => /\ callers'[d].att > callers[c].att
                               /\ callers'[d].att \in DOMAIN attempts'
                               /\ attempts'[callers'[d].att].lp = Pending
                      /\ Unloaded(callers[c].key)
                            => callers'[d].att \notin DOMAIN attempts]_vars

C11_Witness ==
    \E c, d \in DOMAIN callers :
        /\ c < d
        /\ callers[c].key = callers[d].key
        /\ callers[c].out = Rejected(callers[c].att)
        /\ callers[d].att > callers[c].att
        /\ callers[d].origin = "foreground"
        /\ attempts[callers[d].att].p0 = Pending

(* C12: the step in which an idle callback runs leaves every key of its    *)
(* module list Loading or Loaded.                                          *)
C12_Original ==
    [][\A i \in DOMAIN preloads :
          (preloads[i].callback = "registered" /\ preloads'[i].callback = "fired")
              => \A j \in DOMAIN preloads[i].modules :
                    LET k == preloads[i].modules[j]
                    IN MapHas(moduleCache', k) \/ MapHas(loadingPromises', k)]_vars

(* C13 as stated: no foreground caller observes the failure of a factory   *)
(* invocation that the idle callback started.                              *)
C13_Original ==
    \A c \in DOMAIN callers :
        (callers[c].origin = "foreground" /\ callers[c].lazy.st = "rejected")
            => ~IdleStarted(callers[c].att)

(* C13: the rejection of every call made by the idle callback is handled   *)
(* there and goes no further, and a foreground request is attached to an   *)
(* invocation started by the idle callback only while that invocation's    *)
(* load is pending: a request made after it failed never observes its      *)
(* failure.                                                                *)
C13_PreloadFailureScope ==
    /\ [](\A c \in DOMAIN callers : callers[c].origin = "idle" => callers[c].caught)
    /\ [][\A k \in Keys : \A d \in NewCallers(k) :
            (/\ callers'[d].origin = "foreground"
             /\ callers'[d].att \in DOMAIN attempts
             /\ IdleStarted(callers'[d].att))
                => /\ attempts[callers'[d].att].lp = Pending
                   /\ Registered(callers'[d].att)]_vars

C13_Witness ==
    \E c, d \in DOMAIN callers :
        /\ callers[c].origin = "idle"
        /\ callers[c].caught
        /\ callers[c].out = Rejected(callers[c].att)
        /\ callers[d].origin = "foreground"
        /\ callers[d].att = callers[c].att
        /\ Starter(callers[c].att) = c
        /\ callers[d].out = Rejected(callers[c].att)

(* C14: the rejection of a call made by the idle callback is handled (no   *)
(* unhandled rejection), a failed invocation started by the idle callback  *)
(* is not left as the pending load of its key, and a foreground request    *)
(* made when all invocations for the key have failed, one of them started  *)
(* by the idle callback, starts a new invocation.                          *)
C14_SwallowedAndCleared ==
    /\ [](/\ \A c \in DOMAIN callers :
               (callers[c].origin = "idle" /\ callers[c].out.st = "rejected")
                   => callers[c].caught
          /\ \A a \in DOMAIN attempts :
               (IdleStarted(a) /\ Failed(a)) => ~Registered(a))
    /\ [][\A k \in Keys : \A d \in NewCallers(k) :
            (/\ callers'[d].origin = "foreground"
             /\ \E a \in Attempts(k) : IdleStarted(a)
             /\ \A a \in Attempts(k) : Failed(a))
                => /\ callers'[d].att \in DOMAIN attempts' \ DOMAIN attempts
                   /\ attempts'[callers'[d].att].key = k
                   /\ attempts'[callers'[d].att].p0 = Pending]_vars

C14_Witness ==
    \E c, d \in DOMAIN callers :
        /\ callers[c].origin = "idle"
        /\ callers[c].out = Rejected(callers[c].att)
        /\ callers[c].caught
        /\ Starter(callers[c].att) = c
        /\ callers[d].origin = "foreground"
        /\ callers[d].key = callers[c].key
        /\ callers[d].att > callers[c].att
        /\ Starter(callers[d].att) = d

(* C15: a call of preloadInBackground that finds no requestIdleCallback    *)
(* changes nothing but the record of the call: nothing is ever run on its  *)
(* behalf, calls of load functions by an idle callback come only with the  *)
(* firing of a registered callback, and when no call has found the         *)
(* facility the first request for a key makes exactly one invocation.      *)
C15_NoIdleFacility ==
    /\ []((\A i \in DOMAIN preloads : preloads[i].callback = "none")
             => \A c \in DOMAIN callers : callers[c].origin = "foreground")
    /\ [][/\ \A i \in DOMAIN preloads :
               preloads[i].callback = "none" => preloads'[i].callback = "none"
          /\ (Len(preloads') > Len(preloads) /\ preloads'[Len(preloads')].callback = "none")
                => UNCHANGED <<moduleCache, loadingPromises, attempts, callers,
                               microtasks, initialized, katexLinks>>
          /\ (\E c \in DOMAIN callers' : c > Len(callers) /\ callers'[c].origin = "idle")
                => \E i \in DOMAIN preloads :
                      preloads[i].callback = "registered" /\ preloads'[i].callback = "fired"
          /\ \A k \in Keys :
               (/\ NewCallers(k) # {}
                /\ Callers(k) = {}
                /\ \A i \in DOMAIN preloads : preloads[i].callback = "none")
                   => Cardinality({a \in DOMAIN attempts' : attempts'[a].key = k}) = 1]_vars

C15_Witness ==
    /\ \E i \in DOMAIN preloads :
          preloads[i].callback = "none" /\ preloads[i].modules[1] = "mermaid"
    /\ \E c \in DOMAIN callers :
          /\ callers[c].key = "mermaid"
          /\ callers[c].origin = "foreground"
          /\ callers[c].out = Fulfilled(callers[c].att)
          /\ callers[c].att # 0
    /\ Invocations("mermaid") = 1

(* The calls of load functions that the idle callbacks run so far have made. *)
RECURSIVE IdleCalls(_)
IdleCalls(ps) ==
    IF ps = <<>> THEN 0
    ELSE (IF Head(ps).callback = "fired" THEN Handled(Head(ps).modules) ELSE 0)
         + IdleCalls(Tail(ps))

(* C16: every callback registered with requestIdleCallback is eventually   *)
(* run, and run once: again and again no registered callback is waiting    *)
(* (a record is never removed and goes from registered to fired only, so   *)
(* each registered callback has then run), a callback that has run never   *)
(* runs again, and the calls made by idle callbacks are those of one run   *)
(* of each.                                                                *)
C16_IdleCallbackRunsOnce ==
    /\ []<>(\A i \in DOMAIN preloads : preloads[i].callback # "registered")
    /\ [](Cardinality({c \in DOMAIN callers : callers[c].origin = "idle"})
             = IdleCalls(preloads))
    /\ [][\A i \in DOMAIN preloads :
            /\ preloads[i].callback = "fired" => preloads'[i].callback = "fired"
            /\ preloads[i].callback = "registered"
                  => preloads'[i].callback \in {"registered", "fired"}]_vars

C16_Witness ==
    \E i \in DOMAIN preloads :
        /\ preloads[i].callback = "fired"
        /\ Handled(preloads[i].modules) = 2
        /\ Cardinality({c \in DOMAIN callers : callers[c].origin = "idle"}) = 2

(* C17: mermaid.default.initialize completes at most once, and once it has *)
(* completed for the module no continuation of loadMermaid calls it again, *)
(* whether the call came from the application or from the idle callback.   *)
C17_InitializeOnce ==
    /\ [](Cardinality({c \in DOMAIN callers : callers[c].ranInit}) <= 1)
    /\ [][\A c \in DOMAIN callers :
            (/\ callers[c].key = "mermaid"
             /\ callers[c].lazy.st = "fulfilled"
             /\ callers[c].lazy.val \in initialized
             /\ callers[c].out = Pending)
                => /\ callers'[c].ranInit = FALSE
                   /\ callers'[c].out \in {Pending, Fulfilled(callers[c].lazy.val)}]_vars

C17_Witness ==
    \E c, d \in DOMAIN callers :
        /\ c # d
        /\ callers[c].key = "mermaid"
        /\ callers[d].key = "mermaid"
        /\ callers[c].ranInit
        /\ ~callers[d].ranInit
        /\ callers[d].out = callers[c].out
        /\ callers[c].out.st = "fulfilled"

(* C18 as stated: in the step in which mermaid's initialization throws in  *)
(* a caller's continuation, the key is left with no cache entry and no     *)
(* pending load.                                                           *)
C18_Original ==
    [][\A c \in DOMAIN callers :
          (callers[c].out # Rejected(InitError) /\ callers'[c].out = Rejected(InitError))
              => /\ ~MapHas(moduleCache', callers[c].key)
                 /\ ~MapHas(loadingPromises', callers[c].key)]_vars

(* Does text hold a fence tagged mermaid and, after the tag, a fence? *)
HasFencedMermaidBlock(text) ==
    \E i, j \in DOMAIN text :
        /\ i + Len(Fence \o Tag) <= j
        /\ j + Len(Fence) - 1 <= Len(text)
        /\ SubSeq(text, i, i + Len(Fence \o Tag) - 1) = Fence \o Tag
        /\ SubSeq(text, j, j + Len(Fence) - 1) = Fence

(* C19: the calls of a detector on a text all return the same boolean,     *)
(* whatever calls of detectors came before, and no call of a detector      *)
(* invokes a factory or changes the cache or the in-flight table.          *)
C19_DetectorsPure ==
    /\ \A m, n \in DOMAIN detected :
          detected[m].fn = detected[n].fn => detected[m].result = detected[n].result
    /\ attempts = <<>>
    /\ moduleCache = <<>>
    /\ loadingPromises = <<>>

C19_Witness ==
    /\ Len(detected) >= 2
    /\ detected[1] = [fn |-> "hasKaTeXContent", result |-> TRUE]
    /\ detected[2] = [fn |-> "hasKaTeXContent", result |-> TRUE]

(* C20: hasMermaidContent returns true for a text that holds a fenced      *)
(* block tagged mermaid, the block with A->B in it included, and false for *)
(* "plain paragraph, no markers".                                          *)
C20_DiagramDetector ==
    \A n \in DOMAIN detected :
        detected[n].fn = "hasMermaidContent"
            => /\ HasFencedMermaidBlock(markdown) => detected[n].result
               /\ markdown = MermaidExample => detected[n].result
               /\ markdown = PlainExample => ~detected[n].result

C20_Witness ==
    /\ markdown = MermaidExample
    /\ \E n \in DOMAIN detected :
          detected[n] = [fn |-> "hasMermaidContent", result |-> TRUE]

(* Does text hold a $, one character or more none of which is a $ or a    *)
(* newline, and a $?                                                       *)
HasInlineMath(text) ==
    \E i, j \in DOMAIN text :
        /\ i + 1 < j
        /\ text[i] = "$"
        /\ text[j] = "$"
        /\ \A q \in (i + 1)..(j - 1) : text[q] # "$" /\ text[q] # "\n"

(* Does text hold $$ and, after it, another $$? *)
HasBlockMath(text) ==
    \E i, j \in DOMAIN text :
        /\ i + 2 <= j
        /\ j + 1 <= Len(text)
        /\ SubSeq(text, i, i + 1) = <<"$", "$">>
        /\ SubSeq(text, j, j + 1) = <<"$", "$">>

(* C21: hasKaTeXContent returns true for every text that holds an inline   *)
(* math span between single dollar signs or a block math span between     *)
(* double dollar signs, the text with $x^2$ and a $$ block included.       *)
C21_MathDetector ==
    \A n \in DOMAIN detected :
        detected[n].fn = "hasKaTeXContent"
            => /\ HasInlineMath(markdown) => detected[n].result
               /\ HasBlockMath(markdown) => detected[n].result
               /\ markdown = MathExample => detected[n].result

C21_Witness ==
    /\ markdown = MathExample
    /\ HasInlineMath(markdown)
    /\ HasBlockMath(markdown)
    /\ \E n \in DOMAIN detected :
          detected[n] = [fn |-> "hasKaTeXContent", result |-> TRUE]

---------------------------------------------------------------------------
(* C22: whenever a caller holds the module of a key, getLoadingStatus()    *)
(* lists the key under loaded and not under loading: the cache was filled  *)
(* and the pending load removed before the value reached any caller.       *)
C22_CachedBeforeResume ==
    \A c \in DOMAIN callers :
        callers[c].lazy.st = "fulfilled"
            => /\ callers[c].key \in Range(getLoadingStatus.loaded)
               /\ callers[c].key \notin Range(getLoadingStatus.loading)
               /\ MapGet(moduleCache, callers[c].key) = callers[c].lazy.val

C22_Witness ==
    \E c \in DOMAIN callers :
        /\ callers[c].att # 0
        /\ callers[c].lazy = Fulfilled(callers[c].att)
        /\ callers[c].out = Pending
        /\ getLoadingStatus.loaded = <<callers[c].key>>
        /\ getLoadingStatus.loading = <<>>

(* C23 as stated: a request for a key that is in the cache has no          *)
(* suspension point, the caller has the value when the step of the request *)
(* ends.                                                                   *)
C23_Original ==
    [][\A k \in Keys : \A d \in NewCallers(k) :
          Loaded(k) => callers'[d].out # Pending]_vars

(* C24: a load started by the idle callback that succeeds fills the cache  *)
(* and leaves no pending load, and a foreground request made afterwards    *)
(* gets the cached module without any factory invocation.                  *)
C24_PreloadServesLater ==
    /\ [](\A a \in DOMAIN attempts :
            (IdleStarted(a) /\ Succeeded(a))
                => /\ Loaded(attempts[a].key)
                   /\ MapGet(moduleCache, attempts[a].key) = a
                   /\ ~Loading(attempts[a].key))
    /\ [][\A k \in Keys : \A d \in NewCallers(k) :
            (/\ callers'[d].origin = "foreground"
             /\ \E a \in Attempts(k) : IdleStarted(a) /\ Succeeded(a))
                => /\ attempts' = attempts
                   /\ callers'[d].att = 0
                   /\ callers'[d].lazy = Fulfilled(MapGet(moduleCache, k))]_vars

C24_Witness ==
    \E c, d \in DOMAIN callers :
        /\ callers[c].origin = "idle"
        /\ callers[c].att # 0
        /\ Starter(callers[c].att) = c
        /\ Succeeded(callers[c].att)
        /\ callers[d].origin = "foreground"
        /\ callers[d].key = callers[c].key
        /\ callers[d].att = 0
        /\ callers[d].out = Fulfilled(callers[c].att)
        /\ Invocations(callers[c].key) = 1

(* C25: when every factory invocation settles, again and again no load is  *)
(* pending and no call of a load function is unanswered; the calls and the *)
(* invocations being finitely many and an answer being final, every        *)
(* request is answered and every key leaves Loading.                       *)
C25_EveryLoadEnds ==
    /\ []<>(loadingPromises = <<>>)
    /\ []<>(\A c \in DOMAIN callers : callers[c].out # Pending)

C25_Witness ==
    /\ loadingPromises = <<>>
    /\ \E c, d \in DOMAIN callers :
          /\ callers[c].out = Rejected(callers[c].att)
          /\ callers[d].out.st = "fulfilled"
          /\ callers[d].att # 0

(* C26: while the promise of a factory invocation is pending, the          *)
(* invocation is the pending load of its key, every call attached to it is *)
(* unanswered, every other invocation for the key has failed, and a        *)
(* request for the key is attached to it without a new invocation.         *)
C26_NoTimeout ==
    /\ [](\A a \in DOMAIN attempts :
            attempts[a].p0 = Pending
                => /\ Registered(a)
                   /\ \A c \in DOMAIN callers :
                         callers[c].att = a
                             => callers[c].lazy = Pending /\ callers[c].out = Pending
                   /\ \A b \in Attempts(attempts[a].key) \ {a} : Failed(b))
    /\ [][\A a \in DOMAIN attempts :
            attempts[a].p0 = Pending
                => /\ \A d \in NewCallers(attempts[a].key) : callers'[d].att = a
                   /\ {b \in DOMAIN attempts' : attempts'[b].key = attempts[a].key}
                         = Attempts(attempts[a].key)]_vars

C26_Witness ==
    \E c, d \in DOMAIN callers :
        /\ callers[c].origin = "idle"
        /\ callers[d].origin = "foreground"
        /\ callers[c].att = callers[d].att
        /\ callers[c].att # 0
        /\ attempts[callers[c].att].p0 = Pending
        /\ microtasks = <<>>
        /\ callers[c].out = Pending
        /\ callers[d].out = Pending

(* C27: the step of a call of preloadInBackground changes nothing of the   *)
(* loader but the record of the call, and a call of a load function by the *)
(* preloader is made only in the step in which a registered callback runs, *)
(* for a key of that callback's list.                                      *)
C27_FireAndForget ==
    [][/\ Len(preloads') > Len(preloads)
            => /\ UNCHANGED <<moduleCache, loadingPromises, attempts, callers, microtasks>>
               /\ \A i \in DOMAIN preloads : preloads'[i] = preloads[i]
       /\ \A c \in DOMAIN callers' :
            (c > Len(callers) /\ callers'[c].origin = "idle")
                => \E i \in DOMAIN preloads :
                      /\ preloads[i].callback = "registered"
                      /\ preloads'[i].callback = "fired"
                      /\ callers'[c].key \in Range(preloads[i].modules)]_vars

C27_Witness ==
    /\ \E i \in DOMAIN preloads :
          preloads[i].callback = "registered" /\ preloads[i].modules = <<"mermaid", "katex">>
    /\ attempts = <<>>
    /\ callers = <<>>
    /\ moduleCache = <<>>
    /\ loadingPromises = <<>>

(* The cache entry and the pending load of key k in the two Maps. *)
EntryOf(cache, loading, k) ==
    <<IF MapHas(cache, k) THEN <<MapGet(cache, k)>> ELSE <<>>,
      IF MapHas(loading, k) THEN <<MapGet(loading, k)>> ELSE <<>>>>

(* C28: the cache entry and the pending load of a key change only in a     *)
(* step that makes a request for this key or runs the .then or .catch      *)
(* reaction of an invocation for this key.                                 *)
C28_KeysIndependent ==
    [][\A k \in Keys :
          EntryOf(moduleCache', loadingPromises', k) # EntryOf(moduleCache, loadingPromises, k)
              => \/ NewCallers(k) # {}
                 \/ /\ microtasks # <<>>
                    /\ Head(microtasks).type \in {"thenReaction", "catchReaction"}
                    /\ attempts[Head(microtasks).id].key = k
                    /\ Len(callers') = Len(callers)]_vars

C28_Witness ==
    \E a, b \in DOMAIN attempts :
        /\ attempts[a].key = "mermaid"
        /\ Failed(a)
        /\ attempts[b].key = "katex"
        /\ b < a
        /\ Registered(b)
        /\ Unloaded("mermaid")

(* C29: for every key the factory invocations made so far are the failed   *)
(* ones and one more when the key is Loading or Loaded; at most one has    *)
(* succeeded and at most one is in progress.                               *)
C29_Accounting ==
    \A k \in Keys :
        /\ Invocations(k) = Cardinality({a \in Attempts(k) : Failed(a)})
                               + (IF Loading(k) \/ Loaded(k) THEN 1 ELSE 0)
        /\ Cardinality({a \in Attempts(k) : Succeeded(a)}) <= 1
        /\ Cardinality({a \in Attempts(k) : Unsettled(a)}) <= 1

C29_Witness ==
    \E k \in Keys :
        /\ Invocations(k) = 2
        /\ Loaded(k)
        /\ \E a \in Attempts(k) : Failed(a)
        /\ \E a \in Attempts(k) : Succeeded(a)

(* C30: the step of a call of getLoadingStatus() and the step in which its *)
(* caller writes to the lists it got change nothing of the loader, and     *)
(* after such a write a call of getLoadingStatus() returns what the call   *)
(* before returned.                                                        *)
C30_StatusReadOnly ==
    /\ [](Len(lastStatus) = 2 => getLoadingStatus = lastStatus[1])
    /\ [][lastStatus' # <<>>
            => UNCHANGED <<moduleCache, loadingPromises, attempts, callers,
                           microtasks, preloads, initialized, katexLinks>>]_vars

C30_Witness ==
    /\ Len(lastStatus) = 2
    /\ lastStatus[1].loaded = <<"mermaid">>
    /\ lastStatus[2].loaded = <<"mermaid", "katex">>
    /\ getLoadingStatus.loaded = <<"mermaid">>

---------------------------------------------------------------------------
IsPrefix(s, t) == Len(s) <= Len(t) /\ SubSeq(t, 1, Len(s)) = s

(* C31: the loaded list that getLoadingStatus() returns before a step is a *)
(* prefix of the one it returns after the step, hence of that of every     *)
(* later call: keys are added at the end, when their load succeeds, and    *)
(* none is removed or moved.                                               *)
C31_LoadedAppendOnly ==
    [][IsPrefix(getLoadingStatus.loaded, getLoadingStatus'.loaded)]_vars

C31_Witness ==
    /\ Len(getLoadingStatus.loaded) = 2
    /\ MapGet(moduleCache, getLoadingStatus.loaded[1])
          > MapGet(moduleCache, getLoadingStatus.loaded[2])

(* C32: every call of loadMermaid that has returned the module has         *)
(* returned it with isInitialized set, the calls served from the cache and *)
(* those attached to a load started by the idle callback included.         *)
C32_InitializedOnReturn ==
    \A c \in DOMAIN callers :
        (callers[c].key = "mermaid" /\ callers[c].out.st = "fulfilled")
            => callers[c].out.val \in initialized

C32_Witness ==
    \E c, d \in DOMAIN callers :
        /\ callers[c].key = "mermaid"
        /\ callers[c].origin = "idle"
        /\ callers[d].origin = "foreground"
        /\ callers[d].att = callers[c].att
        /\ callers[d].att # 0
        /\ callers[c].out.st = "fulfilled"
        /\ callers[d].out = callers[c].out
        /\ callers[d].ranInit
        /\ callers[c].out.val \in initialized

(* C33: loadKaTeX has appended the stylesheet link at most once, and       *)
(* exactly when a call of loadKaTeX has returned the module: never before  *)
(* the load has succeeded and never for a failed load.                     *)
C33_LinkOnce ==
    /\ katexLinks <= 1
    /\ (katexLinks = 1)
          <=> \E c \in DOMAIN callers :
                 callers[c].key = "katex" /\ callers[c].out.st = "fulfilled"
    /\ katexLinks = 1 => Loaded("katex")

C33_Witness ==
    /\ katexLinks = 1
    /\ \E c, d \in DOMAIN callers :
          /\ c # d
          /\ callers[c].key = "katex"
          /\ callers[d].key = "katex"
          /\ callers[c].out.st = "fulfilled"
          /\ callers[d].out.st = "fulfilled"

(* C34: a request whose factory throws when called is rejected with that   *)
(* error and records nothing: no invocation is registered, the key keeps   *)
(* neither a pending load nor a cache entry, and a request made for the    *)
(* key while it is unloaded calls the factory again, registering its load  *)
(* when the factory returns a promise this time.                           *)
C34_SyncThrow ==
    /\ [](\A c \in DOMAIN callers :
            callers[c].lazy = Rejected(SyncError)
                => /\ callers[c].att = 0
                   /\ callers[c].out \in {Pending, Rejected(SyncError)})
    /\ [](\A a \in DOMAIN attempts : attempts[a].p0 # Rejected(SyncError))
    /\ [][\A k \in Keys : \A d \in NewCallers(k) :
            /\ callers'[d].lazy = Rejected(SyncError)
                  => /\ Unloaded(k)
                     /\ attempts' = attempts
                     /\ moduleCache' = moduleCache
                     /\ loadingPromises' = loadingPromises
            /\ Unloaded(k)
                  => \/ callers'[d].lazy = Rejected(SyncError)
                     \/ /\ callers'[d].att \in DOMAIN attempts' \ DOMAIN attempts
                        /\ attempts'[callers'[d].att].key = k
                        /\ attempts'[callers'[d].att].p0 = Pending]_vars

C34_Witness ==
    \E c, d \in DOMAIN callers :
        /\ c < d
        /\ callers[c].out = Rejected(SyncError)
        /\ callers[d].key = callers[c].key
        /\ callers[d].att # 0
        /\ Starter(callers[d].att) = d
        /\ Invocations(callers[c].key) = 1
        /\ Loading(callers[c].key)

---------------------------------------------------------------------------
(* Are s and t the same up to the case of their letters? *)
SameIgnoringCase(s, t) ==
    /\ Len(s) = Len(t)
    /\ \A n \in DOMAIN s :
          \/ s[n] = t[n]
          \/ \E m \in DOMAIN LowerCase : {s[n], t[n]} = {LowerCase[m], UpperCase[m]}

(* Does text hold three backticks, at once the tag in any case and,        *)
(* somewhere after the tag, three backticks?                               *)
HasMermaidFence(text) ==
    \E i, j \in DOMAIN text :
        /\ i + Len(Fence) + Len(Tag) <= j
        /\ j + Len(Fence) - 1 <= Len(text)
        /\ SubSeq(text, i, i + Len(Fence) - 1) = Fence
        /\ SameIgnoringCase(SubSeq(text, i + Len(Fence), i + Len(Fence) + Len(Tag) - 1), Tag)
        /\ SubSeq(text, j, j + Len(Fence) - 1) = Fence

(* C35: hasMermaidContent is true exactly for the texts that hold three    *)
(* backticks followed at once by mermaid in any case and, after the tag,   *)
(* three backticks again; an opening fence that is not closed gives false. *)
C35_MermaidExact ==
    \A n \in DOMAIN detected :
        detected[n].fn = "hasMermaidContent"
            => /\ detected[n].result <=> HasMermaidFence(markdown)
               /\ markdown \in {Fence \o Tag, Fence \o Tag \o <<"\n">>,
                                Fence \o Tag \o <<"\n", "x">>}
                     => ~detected[n].result

C35_Witness ==
    /\ markdown = Fence \o <<"M", "e", "r", "m", "a", "i", "d">> \o Fence
    /\ \E n \in DOMAIN detected :
          detected[n] = [fn |-> "hasMermaidContent", result |-> TRUE]

(* C36: hasKaTeXContent is true exactly for the texts that hold $$ and,    *)
(* after it, $$ again, or a $, one character or more none of which is a $  *)
(* or a newline, and a $: false for a single $, for $$ alone and for two $ *)
(* with a newline between them, true for "$5 and $10".                     *)
C36_KaTeXExact ==
    \A n \in DOMAIN detected :
        detected[n].fn = "hasKaTeXContent"
            => /\ detected[n].result <=> (HasBlockMath(markdown) \/ HasInlineMath(markdown))
               /\ markdown \in {<<"$">>, <<"$", "$">>, <<"$", "\n", "$">>,
                                <<"$", "x", "\n", "$">>}
                     => ~detected[n].result
               /\ markdown \in {DollarExample, <<"$", "$", "$", "$">>,
                                <<"$", "$", "\n", "$", "$">>}
                     => detected[n].result

C36_Witness ==
    /\ markdown = DollarExample
    /\ \E n \in DOMAIN detected :
          detected[n] = [fn |-> "hasKaTeXContent", result |-> TRUE]

====
